---- MODULE Spec2Model ----
(***************************************************************************)
(* manually-static: ManuallyStatic<T> with ManuallyStaticRef<T> and        *)
(* ManuallyStaticRefMut<T> (src/src/stack_and_ref.rs, src/src/lib.rs) and  *)
(* ManuallyStaticPtr<T> (src/src/ptr.rs).                                  *)
(*                                                                         *)
(* A behaviour is the life of ONE object after its construction: either a  *)
(* ManuallyStatic cell with the references taken from it, or the family of *)
(* ManuallyStaticPtr handles of one heap block.  Threads run the methods;  *)
(* a method that touches shared state more than once is one step per       *)
(* access (atomic load / store / swap / fetch_add / fetch_sub, the raw     *)
(* pointer access, the release of the memory).                             *)
(***************************************************************************)
EXTENDS Integers, Sequences, FiniteSets, TLC

\* ------------------------------------------------------------------ bounds
NThreads == 2
MaxRefs == 2
MaxHandles == 3
MaxValue == 2

Threads == 1..NThreads
RefIds == 1..MaxRefs
HandleIds == 1..MaxHandles
Values == 1..MaxValue

\* ------------------------------------------------------- values of fields
\* A field under #[cfg(debug_assertions)]: << x >> when it is compiled in and
\* holds x, << >> when it is compiled out of the struct.
Absent == << >>
Field(x) == << x >>
Load(f) == f[1]
\* What a read of memory that is no longer the value's may give besides a
\* value of T that happens to be there (a number outside Values).
Garbage == MaxValue + 1
\* No value: no view was returned / no argument (a number outside Values).
NoVal == MaxValue + 2
\* No method.
NoMethod == "none"
\* The address ManuallyStatic::new's result lives at (its field `value` is
\* stored inline) and the address Box::into_raw(Box::new(value)) returns.
CellAddr == 1
BlockAddr == 1
\* The heap addresses: the block's and one that is not the block's.
Addrs == {BlockAddr, BlockAddr + 1}

\* ------------------------------------------------- panic messages (tokens)
\* The text of each assert! message, cut into words and punctuation marks.
NoFailure == << >>

MsgRefStack ==
  << "Attempted", "to", "dereference", "ManuallyStaticRef", "after",
     "ManuallyStatic", "was", "dropped", "!" >>

MsgRefLib ==
  << "ManuallyStaticRef", ":", "Attempted", "to", "dereference", "value",
     "after", "ManuallyStatic", "was", "dropped", "!" >>

MsgRefMutDeref ==
  << "ManuallyStaticRefMut", ":", "Attempted", "to", "dereference", "value",
     "after", "ManuallyStatic", "was", "dropped", "!" >>

MsgRefMutDerefMut ==
  << "ManuallyStaticRefMut", ":", "Attempted", "to", "dereference", "value",
     "after", "ManuallyStatic", "was", "dropped", "!" >>

MsgDoubleFree ==
  << "Attempted", "to", "double", "free", "ManuallyStaticPtr", "!" >>

\* The double-free message pasted into Deref.
MsgPtrDerefPasted == MsgDoubleFree

MsgPtrDeref ==
  << "ManuallyStaticPtr", ":", "Attempted", "to", "dereference", "a", "freed",
     "pointer", "!" >>

MsgDropBeforeFree ==
  << "Attempted", "to", "drop", "the", "last", "ManuallyStaticPtr", "instance",
     "before", "it", "was", "freed", "!" >>

\* ------------------------------------------------------------------ state
VARIABLES
  debug_assertions, \* cfg(debug_assertions): TRUE instrumented, FALSE bare
  file,             \* the file built: "stack_and_ref.rs", "lib.rs" or "ptr.rs"
  ms_state,         \* the cell: "none" | "alive" | "dropping" | "released"
  ms_addr,          \* address of the cell's field `value`
  ms_value,         \* ManuallyStatic.value
  ms_last,          \* the value last moved into the cell, by new or by a write
  ms_written,       \* a write through a ManuallyStaticRefMut has happened
  was_dropped,      \* the Arc<AtomicBool> shared by the cell and its references
  refs,             \* RefIds -> [st, kind, value_ref]
  heap,             \* Addrs -> [st: "none"|"alloc", val, releases]
  ptr_last,         \* the value last moved into the block, by new or by a store
  ptr_written,      \* a store through a handle's view has happened
  is_freed,         \* the Arc<AtomicBool> shared by the handles
  ref_count,        \* the Arc<AtomicUsize> shared by the handles
  handles,          \* HandleIds -> [st, ptr]
  free_calls,       \* calls of free so far: 0, 1, or 2 for "more than one"
  pc,               \* per thread: where it is within a method
  cur,              \* per thread: the method it runs and its receiver
  result,           \* what the read completed by the last step saw, if it was one
  failure           \* per thread: the message of the panic that ended it

cell_vars == << ms_state, ms_addr, ms_value, ms_last, ms_written, was_dropped, refs >>
ptr_vars == << heap, ptr_last, ptr_written, is_freed, ref_count, handles, free_calls >>
thread_vars == << pc, cur, failure >>
vars == << debug_assertions, file, cell_vars, ptr_vars, thread_vars, result >>

NoRef == [st |-> "none", kind |-> NoMethod, value_ref |-> 0]
NoHandle == [st |-> "none", ptr |-> 0]
NoBlockAt == [st |-> "none", val |-> NoVal, releases |-> 0]
NoOp == [op |-> NoMethod, id |-> 0]

\* TRUE iff the tokens of `phrase` occur in `msg` one after the other.
Contains(msg, phrase) ==
  \E i \in 0..(Len(msg) - Len(phrase)) :
    \A j \in 1..Len(phrase) : msg[i + j] = phrase[j]

\* ------------------------------------------------------------------ Init
\* new with the flag field not under #[cfg(debug_assertions)].
ManuallyStatic_newFlagAlways(v) ==
  /\ ms_state = "alive"
  /\ ms_addr = CellAddr
  /\ ms_value = v
  /\ ms_last = v
  /\ ms_written = FALSE
  /\ was_dropped = Field(FALSE)
  /\ refs = [i \in RefIds |-> NoRef]

\* new with the flag initialised to true.
ManuallyStatic_newDropped(v) ==
  /\ ms_state = "alive"
  /\ ms_addr = CellAddr
  /\ ms_value = v
  /\ ms_last = v
  /\ ms_written = FALSE
  /\ was_dropped = IF debug_assertions THEN Field(TRUE) ELSE Absent
  /\ refs = [i \in RefIds |-> NoRef]

\* ManuallyStatic::new(value): the value moved in, the flag false.
ManuallyStatic_new(v) ==
  /\ ms_state = "alive"
  /\ ms_addr = CellAddr
  /\ ms_value = v
  /\ ms_last = v
  /\ ms_written = FALSE
  /\ was_dropped = IF debug_assertions THEN Field(FALSE) ELSE Absent
  /\ refs = [i \in RefIds |-> NoRef]

\* No cell in this behaviour.
NoCell ==
  /\ ms_state = "none"
  /\ ms_addr = 0
  /\ ms_value = NoVal
  /\ ms_last = NoVal
  /\ ms_written = FALSE
  /\ was_dropped = Absent
  /\ refs = [i \in RefIds |-> NoRef]

\* ManuallyStaticPtr::new(value): the value boxed, the flag false, the count 1.
ManuallyStaticPtr_new(v) ==
  /\ heap = [a \in Addrs |->
              IF a = BlockAddr THEN [st |-> "alloc", val |-> v, releases |-> 0]
              ELSE NoBlockAt]
  /\ ptr_last = v
  /\ ptr_written = FALSE
  /\ is_freed = IF debug_assertions THEN Field(FALSE) ELSE Absent
  /\ ref_count = IF debug_assertions THEN Field(1) ELSE Absent
  /\ handles = [h \in HandleIds |->
                  IF h = 1 THEN [st |-> "live", ptr |-> BlockAddr] ELSE NoHandle]
  /\ free_calls = 0

\* No heap block in this behaviour.
NoBlock ==
  /\ heap = [a \in Addrs |-> NoBlockAt]
  /\ ptr_last = NoVal
  /\ ptr_written = FALSE
  /\ is_freed = Absent
  /\ ref_count = Absent
  /\ handles = [h \in HandleIds |-> NoHandle]
  /\ free_calls = 0

Init ==
  /\ debug_assertions \in BOOLEAN
  /\ pc = [t \in Threads |-> "idle"]
  /\ cur = [t \in Threads |-> NoOp]
  /\ result = NoVal
  /\ failure = [t \in Threads |-> NoFailure]
  /\ \/ /\ file \in {"stack_and_ref.rs", "lib.rs"}
        /\ \E v \in Values : ManuallyStatic_new(v)
        /\ NoBlock
     \/ /\ file = "ptr.rs"
        /\ \E v \in Values : ManuallyStaticPtr_new(v)
        /\ NoCell

\* ------------------------------------------------------------ thread steps
Idle(t) == pc[t] = "idle"

\* A method called on receiver `id` starts.
Begin(t, op, id) == cur' = [cur EXCEPT ![t] = [op |-> op, id |-> id]]

\* The thread ends in state `how`; the method it ran stays on record.
Stop(t, how) ==
  /\ pc' = [pc EXCEPT ![t] = how]
  /\ cur' = [cur EXCEPT ![t] = [op |-> cur[t].op, id |-> 0]]

\* assert! failed in method `op` of receiver `id`: the thread panics with `msg`.
Panic(t, op, id, msg) ==
  /\ pc' = [pc EXCEPT ![t] = "panicked"]
  /\ cur' = [cur EXCEPT ![t] = [op |-> op, id |-> id]]
  /\ failure' = [failure EXCEPT ![t] = msg]

\* The method returns.
Return(t) ==
  /\ pc' = [pc EXCEPT ![t] = "idle"]
  /\ cur' = [cur EXCEPT ![t] = NoOp]

\* The method returns, or, when it ran as part of an unwinding, the panic
\* goes on.
Finish(t) ==
  IF failure[t] # NoFailure
  THEN Stop(t, "panicked")
  ELSE Return(t)

\* An access to memory that is not the value's any more is undefined
\* behaviour: a read gives whatever is there, and the access may also fault.
DanglingRead == Values \cup {Garbage}

\* Some thread is inside a method called on reference i (it holds &self).
RefBorrowed(i) ==
  \E t \in Threads : pc[t] = "ref_access" /\ cur[t].id = i

\* Some thread is inside deref called on handle h (it holds &self).
HandleBorrowed(h) ==
  \E t \in Threads : pc[t] = "ptr_access" /\ cur[t].id = h

\* ------------------------------------------------- ManuallyStatic (cell)
\* The slot the next reference is kept in.
NewRefId == CHOOSE i \in RefIds : refs[i].st = "none" /\
                \A j \in RefIds : j < i => refs[j].st # "none"

\* ManuallyStatic::get_ref: value_ref: &self.value, was_dropped cloned.
get_ref(t) ==
  /\ Idle(t)
  /\ ms_state = "alive"
  /\ \E i \in RefIds : refs[i].st = "none"
  /\ refs' = [refs EXCEPT ![NewRefId] =
                [st |-> "live", kind |-> "ManuallyStaticRef", value_ref |-> ms_addr]]
  /\ result' = NoVal
  /\ UNCHANGED << debug_assertions, file, ms_state, ms_addr, ms_value, ms_last,
                  ms_written, was_dropped, ptr_vars, thread_vars >>

\* ManuallyStatic::get_mut (lib.rs only): value_ref_mut: &mut self.value.
get_mut(t) ==
  /\ Idle(t)
  /\ file = "lib.rs"
  /\ ms_state = "alive"
  /\ \E i \in RefIds : refs[i].st = "none"
  /\ refs' = [refs EXCEPT ![NewRefId] =
                [st |-> "live", kind |-> "ManuallyStaticRefMut", value_ref |-> ms_addr]]
  /\ result' = NoVal
  /\ UNCHANGED << debug_assertions, file, ms_state, ms_addr, ms_value, ms_last,
                  ms_written, was_dropped, ptr_vars, thread_vars >>

\* The message of the assert! in the deref / deref_mut of a reference.
RefMessage(kind, op) ==
  IF kind = "ManuallyStaticRef"
  THEN (IF file = "stack_and_ref.rs" THEN MsgRefStack ELSE MsgRefLib)
  ELSE (IF op = "deref_mut" THEN MsgRefMutDerefMut ELSE MsgRefMutDeref)

\* The assert! without its negation.
RefCheckInverted ==
  IF debug_assertions THEN Load(was_dropped) = TRUE ELSE TRUE

\* The condition asserted by deref / deref_mut of a reference:
\* !self.was_dropped.load(Ordering::Acquire); compiled out without
\* debug_assertions.
RefCheckPasses ==
  IF debug_assertions THEN Load(was_dropped) = FALSE ELSE TRUE

\* The first half of a dereference of reference i: the assert!.
RefCheck(t, i, op) ==
  /\ Idle(t)
  /\ refs[i].st = "live"
  /\ IF RefCheckPasses
     THEN /\ pc' = [pc EXCEPT ![t] = "ref_access"]
          /\ Begin(t, op, i)
          /\ UNCHANGED failure
     ELSE Panic(t, op, i, RefMessage(refs[i].kind, op))
  /\ result' = NoVal
  /\ UNCHANGED << debug_assertions, file, cell_vars, ptr_vars >>

\* Deref for ManuallyStaticRef and for ManuallyStaticRefMut.
Ref_deref(t) ==
  \E i \in RefIds : RefCheck(t, i, "deref")

\* DerefMut for ManuallyStaticRefMut.
RefMut_deref_mut(t) ==
  \E i \in RefIds :
    /\ refs[i].kind = "ManuallyStaticRefMut"
    /\ RefCheck(t, i, "deref_mut")

\* The address still holds the cell's value.
RefTargetValid(i) ==
  /\ ms_state \in {"alive", "dropping"}
  /\ refs[i].value_ref = ms_addr

\* What the view of reference i reads: the cell's own field, not a copy.
RefRead(i) == ms_value

\* A view that is a copy of the field: the write does not reach the cell.
RefWriteToCopy(i, w) == ms_value

\* The cell's field after w is written through the view of reference i.
RefWrite(i, w) == w

\* The second half of deref: unsafe { &*self.value_ref } and the caller's
\* read of the view.
Ref_read(t) ==
  /\ pc[t] = "ref_access"
  /\ cur[t].op = "deref"
  /\ LET i == cur[t].id
     IN IF RefTargetValid(i)
        THEN /\ Return(t)
             /\ result' = RefRead(i)
        ELSE \/ /\ Return(t)
                /\ \E g \in DanglingRead : result' = g
             \/ /\ Stop(t, "faulted")
                /\ result' = NoVal
  /\ UNCHANGED << debug_assertions, file, cell_vars, ptr_vars, failure >>

\* The second half of deref_mut: unsafe { &mut *self.value_ref_mut } and the
\* caller's write of w through the view.
Ref_write(t) ==
  /\ pc[t] = "ref_access"
  /\ cur[t].op = "deref_mut"
  /\ LET i == cur[t].id
     IN IF RefTargetValid(i)
        THEN /\ Return(t)
             /\ \E w \in Values :
                  /\ ms_value' = RefWrite(i, w)
                  /\ ms_last' = w
             /\ ms_written' = TRUE
        ELSE /\ UNCHANGED << ms_value, ms_last, ms_written >>
             /\ \/ Return(t)
                \/ Stop(t, "faulted")
  /\ result' = NoVal
  /\ UNCHANGED << debug_assertions, file, ms_state, ms_addr, was_dropped, refs,
                  ptr_vars, failure >>

\* A reference goes out of scope: no Drop impl, only its Arc is released.
Ref_drop(t) ==
  /\ Idle(t)
  /\ \E i \in RefIds :
       /\ refs[i].st = "live"
       /\ ~RefBorrowed(i)
       /\ refs' = [refs EXCEPT ![i] = NoRef]
  /\ result' = NoVal
  /\ UNCHANGED << debug_assertions, file, ms_state, ms_addr, ms_value, ms_last,
                  ms_written, was_dropped, ptr_vars, thread_vars >>

\* Drop that leaves the flag as it was.
DropStoreNothing == Load(was_dropped)

\* Drop that stores false.
DropStoreFalse == FALSE

\* What Drop for ManuallyStatic leaves in the flag:
\* self.was_dropped.store(true, Ordering::Release).
DropStore == TRUE

\* The cell goes out of scope.  With debug_assertions, Drop::drop runs first
\* and the fields are released after it; without, there is no Drop impl.
ManuallyStatic_drop(t) ==
  /\ Idle(t)
  /\ ms_state = "alive"
  /\ IF debug_assertions
     THEN /\ was_dropped' = Field(DropStore)
          /\ ms_state' = "dropping"
          /\ pc' = [pc EXCEPT ![t] = "ms_release"]
          /\ Begin(t, "ManuallyStatic::drop", 0)
     ELSE /\ ms_state' = "released"
          /\ UNCHANGED << was_dropped, pc, cur >>
  /\ result' = NoVal
  /\ UNCHANGED << debug_assertions, file, ms_addr, ms_value, ms_last, ms_written,
                  refs, ptr_vars, failure >>

\* The drop glue after Drop::drop: the field `value` is released.
ManuallyStatic_release(t) ==
  /\ pc[t] = "ms_release"
  /\ ms_state' = "released"
  /\ Return(t)
  /\ result' = NoVal
  /\ UNCHANGED << debug_assertions, file, ms_addr, ms_value, ms_last, ms_written,
                  was_dropped, refs, ptr_vars, failure >>

NextCell ==
  \E t \in Threads :
    \/ get_ref(t)
    \/ get_mut(t)
    \/ Ref_deref(t)
    \/ RefMut_deref_mut(t)
    \/ Ref_read(t)
    \/ Ref_write(t)
    \/ Ref_drop(t)
    \/ ManuallyStatic_drop(t)
    \/ ManuallyStatic_release(t)

\* --------------------------------------------- ManuallyStaticPtr (handles)
\* The slot the next handle is kept in.
NewHandleId == CHOOSE h \in HandleIds : handles[h].st = "none" /\
                   \A j \in HandleIds : j < h => handles[j].st # "none"

\* A clone that copies the payload into a block of its own.
ClonePtrCopy(h) == BlockAddr + 1

\* The address the clone of handle h holds: ptr: self.ptr.
ClonePtr(h) == handles[h].ptr

\* A clone that leaves the count as it was.
CloneCountSame == Load(ref_count)

\* The count after Clone: self.ref_count.fetch_add(1, Ordering::AcqRel).
CloneCount == Load(ref_count) + 1

\* Clone for ManuallyStaticPtr.
Ptr_clone(t) ==
  /\ Idle(t)
  /\ \E j \in HandleIds : handles[j].st = "none"
  /\ \E h \in HandleIds :
       /\ handles[h].st = "live"
       /\ handles' = [handles EXCEPT ![NewHandleId] =
                        [st |-> "live", ptr |-> ClonePtr(h)]]
  /\ ref_count' = IF debug_assertions THEN Field(CloneCount) ELSE ref_count
  /\ result' = NoVal
  /\ UNCHANGED << debug_assertions, file, cell_vars, heap, ptr_last, ptr_written,
                  is_freed, free_calls, thread_vars >>

\* Deref without the assert!.
PtrCheckNone == TRUE

\* The condition asserted by Deref for ManuallyStaticPtr:
\* !self.is_freed.load(Ordering::Acquire); compiled out without
\* debug_assertions.
PtrCheckPasses ==
  IF debug_assertions THEN Load(is_freed) = FALSE ELSE TRUE

\* A check made with the swap of free instead of a load.
PtrDerefFlagSwapped == IF debug_assertions THEN Field(TRUE) ELSE is_freed

\* The flag after the check of deref: load(Ordering::Acquire) leaves it.
PtrDerefFlag == is_freed

\* The first half of a dereference of a handle: the assert!.  The caller
\* reads the view ("ptr_deref"), or stores through it ("ptr_deref_store": a
\* T with interior mutability, as the Mutex of the documentation); a failed
\* assert! leaves no view, and the panic is that of deref itself.
Ptr_deref(t) ==
  /\ Idle(t)
  /\ \E h \in HandleIds, op \in {"ptr_deref", "ptr_deref_store"} :
       /\ handles[h].st = "live"
       /\ IF PtrCheckPasses
          THEN /\ pc' = [pc EXCEPT ![t] = "ptr_access"]
               /\ Begin(t, op, h)
               /\ UNCHANGED failure
          ELSE Panic(t, "ptr_deref", 0, MsgPtrDeref)
  /\ is_freed' = PtrDerefFlag
  /\ result' = NoVal
  /\ UNCHANGED << debug_assertions, file, cell_vars, heap, ptr_last, ptr_written,
                  ref_count, handles, free_calls >>

\* The block at address a is allocated and has not been released.
BlockValid(a) == heap[a].st = "alloc" /\ heap[a].releases = 0

\* The second half of a dereference: unsafe { &*self.ptr } and the caller's
\* read of the view.
Ptr_read(t) ==
  /\ pc[t] = "ptr_access"
  /\ cur[t].op = "ptr_deref"
  /\ LET a == handles[cur[t].id].ptr
     IN IF BlockValid(a)
        THEN /\ Return(t)
             /\ result' = heap[a].val
        ELSE \/ /\ Return(t)
                /\ \E g \in DanglingRead : result' = g
             \/ /\ Stop(t, "faulted")
                /\ result' = NoVal
  /\ UNCHANGED << debug_assertions, file, cell_vars, ptr_vars, failure >>

\* The second half of a dereference, the caller storing w through the view.
Ptr_store(t) ==
  /\ pc[t] = "ptr_access"
  /\ cur[t].op = "ptr_deref_store"
  /\ LET a == handles[cur[t].id].ptr
     IN IF BlockValid(a)
        THEN /\ Return(t)
             /\ \E w \in Values :
                  /\ heap' = [heap EXCEPT ![a].val = w]
                  /\ ptr_last' = w
             /\ ptr_written' = TRUE
        ELSE /\ UNCHANGED << heap, ptr_last, ptr_written >>
             /\ \/ Return(t)
                \/ Stop(t, "faulted")
  /\ result' = NoVal
  /\ UNCHANGED << debug_assertions, file, cell_vars, is_freed, ref_count, handles,
                  free_calls, failure >>

\* swap(false, ..): the flag is never set.
FreeSwapFalse == FALSE

\* What free leaves in the flag: self.is_freed.swap(true, Ordering::AcqRel).
FreeSwap == TRUE

\* The assert! of free without its negation.
FreeCheckInverted(old) == old = TRUE

\* free without the assert!.
FreeCheckNone(old) == TRUE

\* The condition asserted by free on the value the swap returned.
FreeCheckPasses(old) == old = FALSE

\* One more: a count that stops at 2, "more than one".
UpTo2(n) == IF n < 2 THEN n + 1 ELSE 2

\* The first half of free(self): the swap and the assert!.  A failed assert!
\* unwinds, and the unwinding drops `self`.
Ptr_free(t) ==
  /\ Idle(t)
  /\ \E h \in HandleIds :
       /\ handles[h].st = "live"
       /\ ~HandleBorrowed(h)
       /\ handles' = [handles EXCEPT ![h].st = "moved"]
       /\ Begin(t, "free", h)
  /\ free_calls' = UpTo2(free_calls)
  /\ IF debug_assertions
     THEN /\ is_freed' = Field(FreeSwap)
          /\ IF FreeCheckPasses(Load(is_freed))
             THEN /\ pc' = [pc EXCEPT ![t] = "free_release"]
                  /\ UNCHANGED failure
             ELSE /\ pc' = [pc EXCEPT ![t] = "unwind_drop"]
                  /\ failure' = [failure EXCEPT ![t] = MsgDoubleFree]
     ELSE /\ pc' = [pc EXCEPT ![t] = "free_release"]
          /\ UNCHANGED << is_freed, failure >>
  /\ result' = NoVal
  /\ UNCHANGED << debug_assertions, file, cell_vars, heap, ptr_last, ptr_written,
                  ref_count >>

\* The second half of free: drop(Box::from_raw(self.ptr)).  Releasing a block
\* a second time is undefined behaviour: the allocator may go on or fault.
\* `self` is dropped as free returns; without debug_assertions there is no
\* Drop impl and the handle is simply gone.
Ptr_free_release(t) ==
  /\ pc[t] = "free_release"
  /\ LET h == cur[t].id
         a == handles[h].ptr
     IN \/ /\ heap' = [heap EXCEPT ![a].releases = UpTo2(@)]
           /\ IF debug_assertions
              THEN /\ pc' = [pc EXCEPT ![t] = "free_drop"]
                   /\ UNCHANGED << handles, cur >>
              ELSE /\ handles' = [handles EXCEPT ![h] = NoHandle]
                   /\ Return(t)
        \/ /\ ~BlockValid(a)
           /\ Stop(t, "faulted")
           /\ UNCHANGED << heap, handles >>
  /\ result' = NoVal
  /\ UNCHANGED << debug_assertions, file, cell_vars, ptr_last, ptr_written, is_freed,
                  ref_count, free_calls, failure >>

\* The count after Drop: self.ref_count.fetch_sub(1, Ordering::AcqRel).
DropCount == Load(ref_count) - 1

\* The test made on the count after the decrement instead of before it.
WasLastOffByOne(prev) == prev = 0

\* Every destruction takes itself for the last.
WasLastAlways(prev) == TRUE

\* The test Drop makes on the value fetch_sub returned: if prev == 1.
WasLast(prev) == prev = 1

\* Drop::drop of handle h by thread t, up to the test of prev.
DropDec(t, h) ==
  /\ ref_count' = Field(DropCount)
  /\ handles' = [handles EXCEPT ![h] = NoHandle]
  /\ IF WasLast(Load(ref_count))
     THEN /\ pc' = [pc EXCEPT ![t] = "drop_check"]
          /\ cur' = [cur EXCEPT ![t] =
                       [op |-> IF Idle(t) THEN "drop" ELSE cur[t].op, id |-> 0]]
     ELSE Finish(t)

\* A handle goes out of scope.  Drop for ManuallyStaticPtr exists only with
\* debug_assertions.
Ptr_drop(t) ==
  /\ Idle(t)
  /\ \E h \in HandleIds :
       /\ handles[h].st = "live"
       /\ ~HandleBorrowed(h)
       /\ IF debug_assertions
          THEN DropDec(t, h)
          ELSE /\ handles' = [handles EXCEPT ![h] = NoHandle]
               /\ UNCHANGED << ref_count, pc, cur >>
  /\ result' = NoVal
  /\ UNCHANGED << debug_assertions, file, cell_vars, heap, ptr_last, ptr_written,
                  is_freed, free_calls, failure >>

\* `self` is dropped at the end of free, or by the unwinding of its panic.
Ptr_free_drop(t) ==
  /\ pc[t] \in {"free_drop", "unwind_drop"}
  /\ DropDec(t, cur[t].id)
  /\ result' = NoVal
  /\ UNCHANGED << debug_assertions, file, cell_vars, heap, ptr_last, ptr_written,
                  is_freed, free_calls, failure >>

\* Drop without its assert!.
DropCheckNone == TRUE

\* An assert! that fails whatever the flag holds.
DropCheckNever == FALSE

\* The condition asserted by Drop when prev == 1:
\* self.is_freed.load(Ordering::Acquire).
DropCheckPasses == Load(is_freed) = TRUE

\* The rest of Drop::drop for the handle that saw prev == 1.
Ptr_drop_check(t) ==
  /\ pc[t] = "drop_check"
  /\ IF DropCheckPasses
     THEN /\ Finish(t)
          /\ UNCHANGED failure
     ELSE Panic(t, cur[t].op, 0, MsgDropBeforeFree)
  /\ result' = NoVal
  /\ UNCHANGED << debug_assertions, file, cell_vars, ptr_vars >>

NextPtr ==
  \E t \in Threads :
    \/ Ptr_clone(t)
    \/ Ptr_deref(t)
    \/ Ptr_read(t)
    \/ Ptr_store(t)
    \/ Ptr_free(t)
    \/ Ptr_free_release(t)
    \/ Ptr_free_drop(t)
    \/ Ptr_drop(t)
    \/ Ptr_drop_check(t)

\* A fault (the hardware's or the allocator's answer to an invalid access or
\* release) ends the whole process: no thread takes a step after it.
Running == \A t \in Threads : pc[t] # "faulted"

Next == Running /\ (NextCell \/ NextPtr)

Spec == Init /\ [][Next]_vars

\* ------------------------------------------------------------ relocation
\* ManuallyStatic<T> is a plain value and get_ref / get_mut borrow it only for
\* the call: the owner may move it (into a Box, a Vec, another binding, out
\* of a function) while references made from it exist.
CellAddrs == {CellAddr, CellAddr + 1}

\* The cell is moved: its fields, the Arc of the flag among them, are copied
\* to another address; no code of the cell or of its references runs, and
\* the references keep the address get_ref / get_mut took.
Move(t) ==
  /\ Idle(t)
  /\ ms_state = "alive"
  /\ \E a \in CellAddrs \ {ms_addr} : ms_addr' = a
  /\ result' = NoVal
  /\ UNCHANGED << debug_assertions, file, ms_state, ms_value, ms_last, ms_written,
                  was_dropped, refs, ptr_vars, thread_vars >>

NextMove == Next \/ (Running /\ \E t \in Threads : Move(t))

\* The program with relocations of the cell.
SpecMove == Init /\ [][NextMove]_vars

\* ================================================================ claims
DebugCell == debug_assertions /\ file # "ptr.rs"
DebugPtr == debug_assertions /\ file = "ptr.rs"

\* Thread t makes the check of a dereference of a reference in this step.
RefDerefStarts(t) ==
  /\ pc[t] = "idle"
  /\ pc'[t] \in {"ref_access", "panicked"}
  /\ cur'[t].op \in {"deref", "deref_mut"}

\* Thread t makes the check of a dereference of a handle in this step.
PtrDerefStarts(t) ==
  /\ pc[t] = "idle"
  /\ pc'[t] \in {"ptr_access", "panicked"}
  /\ cur'[t].op \in {"ptr_deref", "ptr_deref_store"}

\* Thread t calls free in this step.
FreeStarts(t) == pc[t] = "idle" /\ cur'[t].op = "free"

\* The handles that exist (live, or moved into a running free).
Family == {h \in HandleIds : handles[h].st # "none"}

\* C1: with debug_assertions, a dereference (deref or deref_mut) of a
\* reference made once the cell's destruction has completed panics; the
\* message names the type of the reference and holds the word "dropped"; no
\* view is returned.
C1_DerefAfterDropPanics ==
  [][\A t \in Threads :
       (DebugCell /\ ms_state = "released" /\ RefDerefStarts(t)) =>
         /\ pc'[t] = "panicked"
         /\ result' = NoVal
         /\ Contains(failure'[t], << "dropped" >>)
         /\ Contains(failure'[t], << refs[cur'[t].id].kind >>)]_vars

C1_Witness ==
  /\ DebugCell
  /\ ms_state = "released"
  /\ \E t \in Threads :
       /\ pc[t] = "panicked"
       /\ cur[t].op = "deref_mut"
       /\ failure[t] = MsgRefMutDerefMut
  /\ \E t \in Threads :
       /\ pc[t] = "panicked"
       /\ cur[t].op = "deref"
       /\ failure[t] = MsgRefLib

\* C2: with debug_assertions, once a free has released the block, the check of
\* a dereference of any handle panics with a message that holds "freed".
C2_DerefAfterFreePanics ==
  [][\A t \in Threads :
       (DebugPtr /\ heap[BlockAddr].releases > 0 /\ PtrDerefStarts(t)) =>
         /\ pc'[t] = "panicked"
         /\ result' = NoVal
         /\ Contains(failure'[t], << "freed" >>)]_vars

C2_Witness ==
  /\ DebugPtr
  /\ heap[BlockAddr].releases = 1
  /\ \A h \in HandleIds : handles[h].st # "moved"
  /\ Cardinality(Family) >= 2
  /\ \E t \in Threads : pc[t] = "panicked" /\ failure[t] = MsgPtrDeref

\* C3: with debug_assertions, the first call of free on the family does not
\* panic, and every later call, on whichever handle, panics with the
\* double-free message.
C3_SecondFreePanics ==
  [][\A t \in Threads :
       (DebugPtr /\ FreeStarts(t)) =>
         /\ free_calls = 0 => (failure'[t] = NoFailure /\ pc'[t] = "free_release")
         /\ free_calls > 0 => (failure'[t] = MsgDoubleFree /\ pc'[t] = "unwind_drop")]_vars

C3_Witness ==
  /\ DebugPtr
  /\ free_calls = 2
  /\ heap[BlockAddr].releases = 1
  /\ \E t \in Threads : pc[t] = "panicked" /\ failure[t] = MsgDoubleFree
  /\ \E t \in Threads : pc[t] = "idle"

\* C4: with debug_assertions, the destruction of the only handle left, free
\* never having been called, panics with a message that holds "before it was
\* freed".
C4_LastDropWithoutFreePanics ==
  [][DebugPtr =>
       /\ (/\ Cardinality(Family) = 1
           /\ free_calls = 0
           /\ \A h \in HandleIds : handles'[h].st = "none")
          => \E t \in Threads : pc[t] = "idle" /\ pc'[t] = "drop_check"
       /\ \A t \in Threads :
            (pc[t] = "drop_check" /\ free_calls = 0) =>
              /\ free_calls' = 0
              /\ pc'[t] # "drop_check" =>
                   /\ pc'[t] = "panicked"
                   /\ Contains(failure'[t], << "before", "it", "was", "freed" >>)]_vars

C4_Witness ==
  /\ DebugPtr
  /\ free_calls = 0
  /\ Family = {}
  /\ \E t \in Threads : pc[t] = "panicked" /\ failure[t] = MsgDropBeforeFree
\* Thread t completes the read of a dereference of a reference in this step.
RefReadEnds(t) ==
  pc[t] = "ref_access" /\ cur[t].op = "deref" /\ pc'[t] # "ref_access"

\* Thread t completes the read of a dereference of a handle in this step.
PtrReadEnds(t) ==
  pc[t] = "ptr_access" /\ cur[t].op = "ptr_deref" /\ pc'[t] # "ptr_access"

C6_RoundTrip ==
  [][\A t \in Threads :
       /\ (RefDerefStarts(t) /\ ms_state = "alive") => pc'[t] = "ref_access"
       /\ (RefReadEnds(t) /\ ms_state = "alive" /\ ~ms_written) =>
            (pc'[t] = "idle" /\ result' = ms_last)
       /\ (PtrDerefStarts(t) /\ free_calls = 0) => pc'[t] = "ptr_access"
       /\ (PtrReadEnds(t) /\ free_calls = 0 /\ ~ptr_written) =>
            (pc'[t] = "idle" /\ result' = ptr_last)]_vars

C6_Witness ==
  /\ ms_state = "alive"
  /\ ~ms_written
  /\ result = ms_last
  /\ result = ms_value
  /\ result \in Values

\* C7: a read through any reference of an alive cell, made after a write
\* through a ManuallyStaticRefMut, reads the value last written.
C7_WriteVisible ==
  [][\A t \in Threads :
       (RefReadEnds(t) /\ ms_state = "alive" /\ ms_written) =>
         (pc'[t] = "idle" /\ result' = ms_last)]_vars

C7_Witness ==
  /\ ms_state = "alive"
  /\ ms_written
  /\ result = ms_last
  /\ result \in Values
  /\ \A i \in RefIds : refs[i].st = "live" /\ refs[i].kind = "ManuallyStaticRef"

\* C8: every handle of the family holds the address new returned, no second
\* block is ever allocated, and a read through any handle before free reads
\* the value last stored through any handle's view.
C8_CloneSharesBlock ==
  [][/\ \A h \in HandleIds : handles'[h].st # "none" => handles'[h].ptr = BlockAddr
     /\ \A a \in Addrs \ {BlockAddr} : heap'[a].st = "none"
     /\ \A t \in Threads :
          (PtrReadEnds(t) /\ free_calls = 0 /\ ptr_written) =>
            (pc'[t] = "idle" /\ result' = ptr_last)]_vars

C8_Witness ==
  /\ file = "ptr.rs"
  /\ free_calls = 0
  /\ ptr_written
  /\ result = ptr_last
  /\ result \in Values
  /\ Cardinality(Family) = MaxHandles

\* C9 as stated: with debug_assertions, a thread that passed the check of a
\* dereference makes its access before the block is released.
C9_AccessBeforeRelease ==
  DebugPtr => \A t \in Threads : pc[t] = "ptr_access" => BlockValid(BlockAddr)

\* C9 as amended: with debug_assertions, no dereference passes its check once
\* a free has swapped the flag (it panics instead); only a dereference whose
\* check came before the swap can reach the block after its release.
C9_NoCheckPassesAfterSwap ==
  [][\A t \in Threads :
       (DebugPtr /\ free_calls > 0 /\ pc[t] = "idle") => pc'[t] # "ptr_access"]_vars

C9_Witness ==
  /\ DebugPtr
  /\ heap[BlockAddr].releases = 0
  /\ \E t, u \in Threads :
       /\ pc[u] = "free_release"
       /\ pc[t] = "panicked"
       /\ failure[t] = MsgPtrDeref

\* C10: with debug_assertions the block is released at most once: the swap
\* lets exactly one caller of free through to the release, every other caller
\* panics with the double-free message without releasing, and the flag, once
\* true, stays true.
C10_ReleasedAtMostOnce ==
  [][DebugPtr =>
       /\ heap'[BlockAddr].releases
            + Cardinality({t \in Threads : pc'[t] = "free_release"}) <= 1
       /\ is_freed = Field(TRUE) => is_freed' = Field(TRUE)
       /\ \A t \in Threads :
            /\ FreeStarts(t) =>
                 /\ is_freed' = Field(TRUE)
                 /\ IF free_calls = 0
                    THEN pc'[t] = "free_release" /\ failure'[t] = NoFailure
                    ELSE pc'[t] = "unwind_drop" /\ failure'[t] = MsgDoubleFree
            /\ failure[t] = MsgDoubleFree =>
                 (pc'[t] # "free_release" /\ (pc'[t] # pc[t] => heap' = heap))]_vars

C10_Witness ==
  /\ DebugPtr
  /\ heap[BlockAddr].releases = 0
  /\ \E t, u \in Threads :
       /\ pc[t] = "free_release"
       /\ pc[u] = "unwind_drop"
       /\ failure[u] = MsgDoubleFree

\* No thread is inside an operation.
Quiescent == \A t \in Threads : pc[t] \in {"idle", "panicked"}

\* The handles that can still be used or destroyed.
Live == {h \in HandleIds : handles[h].st = "live"}

\* C11: with debug_assertions, the count equals the number of handles that
\* exist (a handle consumed by a running free exists until free drops it), so
\* between operations it equals the number of live handles; it is never
\* below 0.
C11_CountIsLiveHandles ==
  DebugPtr =>
    /\ Load(ref_count) = Cardinality(Family)
    /\ Load(ref_count) >= 0
    /\ Quiescent => Load(ref_count) = Cardinality(Live)

C11_Witness ==
  /\ DebugPtr
  /\ free_calls = 2
  /\ Load(ref_count) = 2
  /\ Cardinality(Live) = 2
  /\ \E t, u \in Threads :
       /\ pc[t] = "panicked"
       /\ failure[t] = MsgDoubleFree
       /\ pc[u] = "idle"

\* Thread t destroys a handle in this step and goes on to the check of the
\* last destruction.
SeesItselfLast(t) == pc[t] # "drop_check" /\ pc'[t] = "drop_check"

\* A handle is destroyed in this step.
Destroys == \E h \in HandleIds : handles[h].st # "none" /\ handles'[h].st = "none"

\* C12: with debug_assertions, the check of Drop is made only by the
\* destruction that takes the count from 1 to 0; a destruction that leaves
\* another handle never goes to the check and raises no failure, free called
\* or not; of the destructions of all handles exactly one goes to the check.
C12_OnlyLastDropChecks ==
  [][DebugPtr =>
       /\ \A t \in Threads :
            SeesItselfLast(t) =>
              /\ Load(ref_count) = 1
              /\ Load(ref_count') = 0
              /\ Family' = {}
       /\ (Destroys /\ Cardinality(Family) >= 2) =>
            /\ failure' = failure
            /\ \A t \in Threads : ~SeesItselfLast(t)
       /\ (Destroys /\ Cardinality(Family) = 1) =>
            Cardinality({t \in Threads : SeesItselfLast(t)}) = 1
       /\ Family = {} => (Family' = {} /\ \A t \in Threads : ~SeesItselfLast(t))]_vars

C12_Witness ==
  /\ DebugPtr
  /\ free_calls = 1
  /\ Family = {}
  /\ ptr_written
  /\ \E t, u \in Threads :
       /\ pc[t] = "drop_check"
       /\ cur[t].op = "drop"
       /\ failure[t] = NoFailure
       /\ pc[u] = "idle"

\* C13: with debug_assertions, once free has been called no destruction of a
\* handle raises the dropped-before-freed failure: not that of another
\* handle, the last included, not that of the handle free consumed, not that
\* of the handle consumed by a free that failed with double free.
C13_DropAfterFreeIsQuiet ==
  DebugPtr =>
    \A t \in Threads :
      /\ failure[t] = MsgDropBeforeFree => free_calls = 0
      /\ (pc[t] = "drop_check" /\ free_calls > 0) => DropCheckPasses

C13_Witness ==
  /\ DebugPtr
  /\ free_calls = 2
  /\ heap[BlockAddr].releases = 1
  /\ Family = {}
  /\ \E t, u \in Threads :
       /\ pc[t] = "panicked"
       /\ failure[t] = MsgDoubleFree
       /\ pc[u] = "idle"

\* C14: with debug_assertions, the flag of a cell is false from new on, is
\* changed only by the destruction of the cell, which changes it to true, and
\* once true stays true; get_ref, get_mut, deref, deref_mut and the drop of a
\* reference leave it as it is.
C14_FlagFlipsOnce ==
  [][DebugCell =>
       /\ ms_state = "alive" => was_dropped = Field(FALSE)
       /\ was_dropped = Field(TRUE) => was_dropped' = Field(TRUE)
       /\ was_dropped' # was_dropped => (ms_state = "alive" /\ ms_state' = "dropping")
       /\ (ms_state = "alive" /\ ms_state' # "alive") => was_dropped' = Field(TRUE)]_vars

C14_Witness ==
  /\ DebugCell
  /\ ms_state = "released"
  /\ was_dropped = Field(TRUE)
  /\ ms_written
  /\ \E i \in RefIds : refs[i].st = "none"
  /\ \E t \in Threads : pc[t] = "panicked" /\ cur[t].op = "deref"
  /\ \E t \in Threads : pc[t] = "idle"

\* C15: with debug_assertions, Drop stores true in the flag before the value
\* is released: in no state, whatever the other threads do, is the value
\* released (or being released) and the flag false.
C15_FlagBeforeRelease ==
  DebugCell =>
    /\ ms_state \in {"dropping", "released"} => was_dropped = Field(TRUE)
    /\ \A t \in Threads : pc[t] = "ms_release" => was_dropped = Field(TRUE)

C15_Witness ==
  /\ DebugCell
  /\ ms_state = "dropping"
  /\ was_dropped = Field(TRUE)
  /\ \E t, u \in Threads :
       /\ pc[t] = "ms_release"
       /\ pc[u] = "ref_access"

\* Thread t takes a step of a dereference (the check, or the access and the
\* caller's read) in this step.
DerefStep(t) ==
  \/ RefDerefStarts(t) /\ cur'[t].op = "deref"
  \/ RefReadEnds(t)
  \/ PtrDerefStarts(t)
  \/ pc[t] = "ptr_access" /\ pc'[t] # "ptr_access"

\* C16: in both builds a dereference of a reference or of a handle, whether
\* it passes its check and gives a view or panics, leaves was_dropped,
\* is_freed and ref_count as they were.
C16_DerefLeavesFlags ==
  [][\A t \in Threads :
       DerefStep(t) =>
         /\ was_dropped' = was_dropped
         /\ is_freed' = is_freed
         /\ ref_count' = ref_count]_vars

C16_Witness ==
  /\ DebugPtr
  /\ is_freed = Field(FALSE)
  /\ Load(ref_count) = 2
  /\ result = ptr_last
  /\ result \in Values
  /\ \E t \in Threads : pc[t] = "ptr_access"

\* Thread t was stopped by a failed assert! or by a fault.
Aborted(t) == failure[t] # NoFailure \/ pc[t] \in {"panicked", "faulted"}

\* C17: with debug_assertions, when every handle has been destroyed, every
\* operation has returned and no thread was stopped, free was called exactly
\* once.
C17_ExactlyOneFree ==
  (DebugPtr /\ Family = {} /\ \A t \in Threads : pc[t] = "idle" /\ ~Aborted(t))
    => free_calls = 1

C17_Witness ==
  /\ DebugPtr
  /\ Family = {}
  /\ free_calls = 1
  /\ heap[BlockAddr].releases = 1
  /\ ptr_written
  /\ \A t \in Threads : pc[t] = "idle" /\ ~Aborted(t)

\* C18: with debug_assertions, before any call of free the only failure there
\* is is that of the last destruction (after which free cannot be called);
\* and while free has been called once, the only thread stopped is one whose
\* dereference was not over when free started: clone, free itself and every
\* destruction, on whichever thread, raise nothing.
C18_NoFalseAlarm ==
  DebugPtr =>
    \A t \in Threads :
      /\ (free_calls = 0 /\ Aborted(t)) =>
           (failure[t] = MsgDropBeforeFree /\ Family = {})
      /\ (free_calls = 1 /\ Aborted(t)) =>
           (cur[t].op \in {"ptr_deref", "ptr_deref_store"}
              /\ failure[t] \in {NoFailure, MsgPtrDeref})

C18_Witness ==
  /\ DebugPtr
  /\ free_calls = 1
  /\ ptr_written
  /\ Cardinality(Family) = 1
  /\ \A t \in Threads : ~Aborted(t)
  /\ \E t, u \in Threads :
       /\ pc[t] = "free_drop"
       /\ pc[u] = "idle"

\* C19: with debug_assertions, a dereference of a reference that passes its
\* check (the flag reads false) is given the address at which the value of
\* the cell resides at that moment: the address taken by get_ref / get_mut
\* is still that of the value, whatever was done to the cell since.
C19_DerefReadsCellAddress ==
  [][DebugCell =>
       \A t \in Threads :
         (RefDerefStarts(t) /\ pc'[t] = "ref_access") =>
           (was_dropped = Field(FALSE) /\ RefTargetValid(cur'[t].id))]_vars

====
